---------------------------- MODULE Spec2Model ----------------------------
(***************************************************************************)
(* TradeStreet market simulation: the useMarket hook (price-tick loop,     *)
(* news-refresh loop, buy/sell entry points), the price engine and the     *)
(* portfolio ledger.                                                       *)
(*                                                                         *)
(* Number representation (JavaScript doubles are carried as fixed point):  *)
(*   money and prices   : mills, 1 = $0.001 (so $0.01 = 10)                *)
(*   percent quantities : basis points, 1 = 0.0001                         *)
(*   sentiment/magnitude: hundredths, their product is in basis points     *)
(*   volatility         : tenths                                           *)
(*   time               : milliseconds, relative to the model's origin     *)
(* A product that leaves the grid is rounded to the nearest grid point.    *)
(***************************************************************************)
EXTENDS Integers, Sequences, FiniteSets, TLC

(***************************************************************************)
(* Program constants                                                       *)
(***************************************************************************)
TICK_INTERVAL == 4000
NEWS_INTERVAL == 30000
HISTORY_CAP == 100
NEWS_CAP == 50
NEWS_WINDOW_MS == 120000
PRICE_FLOOR == 10
INITIAL_CASH == 100000000
MAX_NEWS_COUNT == 3
FALLBACK_STEP == 100

(***************************************************************************)
(* Bounds of the exploration                                               *)
(***************************************************************************)
\* Spec: quanta of model time explored, entry-point calls (buy or sell) per
\* run, and ticks per run whose random draw is not the midpoint
MaxSteps == 16
MaxCalls == 1
MaxDraws == 0
\* the same for SpecOpening
MaxStepsOpening == 2
MaxCallsOpening == 2
MaxDrawsOpening == 1
\* the same for SpecLong
MaxStepsLong == 4
MaxCallsLong == 1
MaxDrawsLong == 1
\* SpecMalformed: quanta of model time explored and ticks per run whose
\* random draw is not the midpoint (no entry-point call is made)
MaxStepsMalformed == 3
MaxDrawsMalformed == 1
\* quanta generateCompanies may take
MaxStepsRosters == 16

MaxStepsAged == 5
MaxDrawsAged == 1

MaxInitDelay == 0
\* quanta a generateNews request may stay in flight
MaxLatency == 1

\* granularity of the model clock
Quantum == TICK_INTERVAL \div 2

\* the null of useState<MarketState | null>(null)
NoState == [null |-> TRUE]
NoTimer == -1
NoError == "none"

(***************************************************************************)
(* Helpers                                                                 *)
(***************************************************************************)
Max(a, b) == IF a >= b THEN a ELSE b
Min(a, b) == IF a <= b THEN a ELSE b

\* a / b rounded to the nearest integer (b > 0)
RoundDiv(a, b) == (2 * a + b) \div (2 * b)

\* the last n elements of s (all of s when it is shorter)
LastN(s, n) == IF Len(s) <= n THEN s ELSE SubSeq(s, Len(s) - n + 1, Len(s))

RECURSIVE SumSeq(_)
SumSeq(s) == IF s = <<>> THEN 0 ELSE Head(s) + SumSeq(Tail(s))

\* JavaScript's NaN (what undefined * number and NaN + number evaluate to),
\* carried as an integer that no quantity of the model ever takes; the
\* arithmetic of the price engine propagates it as IEEE arithmetic does
NaN == -999999937
Times(a, b) == IF a = NaN \/ b = NaN THEN NaN ELSE a * b
Plus(a, b) == IF a = NaN \/ b = NaN THEN NaN ELSE a + b
RoundQuot(a, b) == IF a = NaN THEN NaN ELSE RoundDiv(a, b)
\* Math.max returns NaN when an argument is NaN
MathMax(a, b) == IF a = NaN \/ b = NaN THEN NaN ELSE Max(a, b)

(***************************************************************************)
(* The company roster returned by generateCompanies: unique tickers, a     *)
(* positive basePrice and a volatility in [0, 1].                          *)
(***************************************************************************)
Companies ==
    << [ticker |-> "ACME", basePrice |-> 100000, volatility |-> 2],
       [ticker |-> "PNY",  basePrice |-> 12,     volatility |-> 10] >>

Tickers == { Companies[i].ticker : i \in 1..Len(Companies) }
CompanyOf(t) == CHOOSE c \in { Companies[i] : i \in 1..Len(Companies) } : c.ticker = t
UnknownTicker == "ZZZ"

(***************************************************************************)
(* priceEngine: calculateNewPrice and initializePriceHistory               *)
(***************************************************************************)
\* (Math.random() - 0.5) * 0.02 lies in [-0.01, 0.01): the draws explored
DriftDraws == {-100, 0, 99}

\* the filter without the age test (a faulty variant)
RecentNewsAnyAge(company, recentNews, clock) ==
    SelectSeq(recentNews, LAMBDA n : n.ticker = company.ticker)

\* n.ticker === company.ticker && now - n.timestamp < 120000
RecentNewsForCompany(company, recentNews, clock) ==
    SelectSeq(recentNews,
              LAMBDA n : n.ticker = company.ticker /\ clock - n.timestamp < NEWS_WINDOW_MS)

\* reduce((sum, news) => sum + news.sentiment * news.magnitude, 0), basis points
TotalImpact(events) ==
    LET terms == [i \in 1..Len(events) |->
                    Times(events[i].sentiment, events[i].magnitude)]
    IN IF \E i \in 1..Len(terms) : terms[i] = NaN THEN NaN ELSE SumSeq(terms)

\* totalImpact * company.volatility * 0.08, in basis points
SentimentImpact(company, recentNews, clock) ==
    LET recent == RecentNewsForCompany(company, recentNews, clock) IN
    IF Len(recent) > 0
    THEN RoundQuot(Times(Times(TotalImpact(recent), company.volatility), 8), 1000)
    ELSE 0

\* (drift + sentimentImpact) * (1 + volatility * 0.5), in basis points
PriceChangePercent(company, recentNews, timeDelta, draw, clock) ==
    LET drift == draw * Max(1, timeDelta) IN
    RoundQuot(Times(Plus(drift, SentimentImpact(company, recentNews, clock)),
                    20 + company.volatility), 20)

\* currentPrice * (1 + priceChangePercent), before the floor is applied
UnclampedPrice(currentPrice, company, recentNews, timeDelta, draw, clock) ==
    Plus(currentPrice,
         RoundQuot(Times(currentPrice,
                         PriceChangePercent(company, recentNews, timeDelta, draw, clock)),
                   10000))

\* calculateNewPrice with the Math.max floor left out (a faulty variant)
calculateNewPriceNoFloor(currentPrice, company, recentNews, timeDelta, draw, clock) ==
    UnclampedPrice(currentPrice, company, recentNews, timeDelta, draw, clock)

calculateNewPrice(currentPrice, company, recentNews, timeDelta, draw, clock) ==
    MathMax(UnclampedPrice(currentPrice, company, recentNews, timeDelta, draw, clock),
            PRICE_FLOOR)

\* a history that starts with the base price twice (a faulty variant)
initializePriceHistoryTwoPoints(ticker, basePrice, clock) ==
    << [ticker |-> ticker, price |-> basePrice, timestamp |-> clock],
       [ticker |-> ticker, price |-> basePrice, timestamp |-> clock] >>

initializePriceHistory(ticker, basePrice, clock) ==
    << [ticker |-> ticker, price |-> basePrice, timestamp |-> clock] >>

(***************************************************************************)
(* portfolio: getInitialPortfolio, buyStock, sellStock.  A ledger call     *)
(* either throws (error set, portfolio untouched) or returns a new         *)
(* portfolio value.                                                        *)
(***************************************************************************)
NoPositions == [t \in {} |-> 0]

getInitialPortfolio == [cash |-> INITIAL_CASH, positions |-> NoPositions]

Threw(err, portfolio) == [error |-> err, portfolio |-> portfolio]
Returned(portfolio) == [error |-> NoError, portfolio |-> portfolio]

\* positions with ticker t set to position pos
WithPosition(positions, t, pos) ==
    [u \in (DOMAIN positions) \cup {t} |-> IF u = t THEN pos ELSE positions[u]]

\* positions without ticker t
WithoutPosition(positions, t) ==
    [u \in (DOMAIN positions) \ {t} |-> positions[u]]

\* a buy that takes the last price paid as the average cost (a faulty variant)
buyStockLastPriceAsCost(portfolio, ticker, shares, price) ==
    LET cost == shares * price
        held == ticker \in DOMAIN portfolio.positions
        oldShares == IF held THEN portfolio.positions[ticker].shares ELSE 0
    IN
    IF shares <= 0 THEN Threw("InvalidQuantity", portfolio)
    ELSE IF cost > portfolio.cash THEN Threw("InsufficientFunds", portfolio)
    ELSE Returned(
           [cash |-> portfolio.cash - cost,
            positions |->
              WithPosition(portfolio.positions, ticker,
                [shares |-> oldShares + shares, averageCost |-> price])])

\* a buy that charges a spread of one mill on top of the cost (a faulty
\* variant)
buyStockChargesSpread(portfolio, ticker, shares, price) ==
    LET cost == shares * price
        held == ticker \in DOMAIN portfolio.positions
        oldShares == IF held THEN portfolio.positions[ticker].shares ELSE 0
        oldCost == IF held THEN portfolio.positions[ticker].averageCost ELSE 0
        newShares == oldShares + shares
    IN
    IF shares <= 0 THEN Threw("InvalidQuantity", portfolio)
    ELSE IF cost + 1 > portfolio.cash THEN Threw("InsufficientFunds", portfolio)
    ELSE Returned(
           [cash |-> portfolio.cash - cost - 1,
            positions |->
              WithPosition(portfolio.positions, ticker,
                [shares |-> newShares,
                 averageCost |-> RoundDiv(oldShares * oldCost + cost, newShares)])])

buyStock(portfolio, ticker, shares, price) ==
    LET cost == shares * price
        held == ticker \in DOMAIN portfolio.positions
        oldShares == IF held THEN portfolio.positions[ticker].shares ELSE 0
        oldCost == IF held THEN portfolio.positions[ticker].averageCost ELSE 0
        newShares == oldShares + shares
    IN
    IF shares <= 0 THEN Threw("InvalidQuantity", portfolio)
    ELSE IF cost > portfolio.cash THEN Threw("InsufficientFunds", portfolio)
    ELSE Returned(
           [cash |-> portfolio.cash - cost,
            positions |->
              WithPosition(portfolio.positions, ticker,
                [shares |-> newShares,
                 averageCost |-> RoundDiv(oldShares * oldCost + cost, newShares)])])

\* a sell that credits the average cost instead of the price (a faulty
\* variant)
sellStockCreditsAverageCost(portfolio, ticker, shares, price) ==
    IF shares <= 0 THEN Threw("InvalidQuantity", portfolio)
    ELSE IF ticker \notin DOMAIN portfolio.positions THEN Threw("NoPosition", portfolio)
    ELSE IF shares > portfolio.positions[ticker].shares
         THEN Threw("InsufficientShares", portfolio)
    ELSE Returned(
           [cash |-> portfolio.cash + shares * portfolio.positions[ticker].averageCost,
            positions |->
              IF shares = portfolio.positions[ticker].shares
              THEN WithoutPosition(portfolio.positions, ticker)
              ELSE WithPosition(portfolio.positions, ticker,
                     [portfolio.positions[ticker] EXCEPT !.shares = @ - shares])])

\* a sell that sells what is held when more is asked for (a faulty variant)
sellStockSellsWhatIsHeld(portfolio, ticker, shares, price) ==
    IF shares <= 0 THEN Threw("InvalidQuantity", portfolio)
    ELSE IF ticker \notin DOMAIN portfolio.positions THEN Threw("NoPosition", portfolio)
    ELSE LET sold == Min(shares, portfolio.positions[ticker].shares) IN
         Returned(
           [cash |-> portfolio.cash + sold * price,
            positions |->
              IF sold = portfolio.positions[ticker].shares
              THEN WithoutPosition(portfolio.positions, ticker)
              ELSE WithPosition(portfolio.positions, ticker,
                     [portfolio.positions[ticker] EXCEPT !.shares = @ - sold])])

\* a sell that keeps the position when no share is left (a faulty variant)
sellStockKeepsEmptyPosition(portfolio, ticker, shares, price) ==
    IF shares <= 0 THEN Threw("InvalidQuantity", portfolio)
    ELSE IF ticker \notin DOMAIN portfolio.positions THEN Threw("NoPosition", portfolio)
    ELSE IF shares > portfolio.positions[ticker].shares
         THEN Threw("InsufficientShares", portfolio)
    ELSE Returned(
           [cash |-> portfolio.cash + shares * price,
            positions |->
              WithPosition(portfolio.positions, ticker,
                [portfolio.positions[ticker] EXCEPT !.shares = @ - shares])])

sellStock(portfolio, ticker, shares, price) ==
    IF shares <= 0 THEN Threw("InvalidQuantity", portfolio)
    ELSE IF ticker \notin DOMAIN portfolio.positions THEN Threw("NoPosition", portfolio)
    ELSE IF shares > portfolio.positions[ticker].shares
         THEN Threw("InsufficientShares", portfolio)
    ELSE LET pos == portfolio.positions[ticker]
             left == pos.shares - shares
         IN Returned(
              [cash |-> portfolio.cash + shares * price,
               positions |->
                 IF left = 0
                 THEN WithoutPosition(portfolio.positions, ticker)
                 ELSE WithPosition(portfolio.positions, ticker,
                                   [pos EXCEPT !.shares = left])])

\* valuation: cash + the sum of shares x current price over the positions
RECURSIVE PositionsValue(_, _, _)
PositionsValue(positions, prices, held) ==
    IF held = {} THEN 0
    ELSE LET t == CHOOSE u \in held : TRUE
         IN positions[t].shares * prices[t]
              + PositionsValue(positions, prices, held \ {t})

totalValue(portfolio, prices) ==
    portfolio.cash + PositionsValue(portfolio.positions, prices, DOMAIN portfolio.positions)

(***************************************************************************)
(* generateNews: the payload of the text-generation service, filtered to   *)
(* the roster, cut to count and stamped; generateFallbackNews when the     *)
(* call or the parse fails.  A raw event is [ticker, sentiment, magnitude] *)
(* (headline and body are carried nowhere in the engine).                  *)
(***************************************************************************)
Raw(t, s, m) == [ticker |-> t, sentiment |-> s, magnitude |-> m]

\* what the service may answer: arrays of raw events
RawPayloads ==
    { << >>,
      << Raw(UnknownTicker, 50, 50), Raw("ACME", 90, 100) >>,
      << Raw("PNY", -100, 100), Raw("PNY", -100, 100),
         Raw("PNY", -100, 100), Raw("ACME", 0, 30) >> }

\* answers of the service that parse as JSON but hold an element whose
\* sentiment or magnitude is missing or not a number (NaN in the arithmetic)
MalformedPayloads ==
    { << Raw("ACME", NaN, 100) >>,
      << Raw(UnknownTicker, NaN, NaN), Raw("PNY", 50, NaN), Raw("ACME", 90, 100) >> }

Stamp(raw, clock) ==
    [ticker |-> raw.ticker, sentiment |-> raw.sentiment,
     magnitude |-> raw.magnitude, timestamp |-> clock]

\* generateNews without the roster filter (a faulty variant)
ApiNewsUnfiltered(companies, count, payload, clock) ==
    LET cut == SubSeq(payload, 1, Min(count, Len(payload)))
    IN [i \in 1..Len(cut) |-> Stamp(cut[i], clock)]

\* news.filter(ticker in roster).slice(0, count).map(timestamp: now)
ApiNews(companies, count, payload, clock) ==
    LET known == SelectSeq(payload,
                   LAMBDA n : \E i \in 1..Len(companies) : companies[i].ticker = n.ticker)
        cut == SubSeq(known, 1, Min(count, Len(known)))
    IN [i \in 1..Len(cut) |-> Stamp(cut[i], clock)]

\* newsTemplates: positive[0..4] then negative[0..4], as (sentiment, magnitude)
FallbackTemplates ==
    << <<80, 70>>, <<70, 60>>, <<90, 80>>, <<60, 50>>, <<85, 75>>,
       <<-70, 70>>, <<-80, 80>>, <<-90, 90>>, <<-60, 60>>, <<-75, 70>> >>

\* the random draws explored: per event a (company index, template index) pair
FallbackPicks ==
    { << <<1, 3>>, <<1, 3>>, <<2, 8>> >>,
      << <<2, 8>>, <<1, 6>>, <<1, 3>> >> }

\* for (i = 0; i < count && i < companies.length; i++): one event per pick,
\* its company the one at floor(random * companies.length)
generateFallbackNews(companies, count, picks, clock) ==
    [k \in 1..Min(count, Len(companies)) |->
        [ticker |-> companies[((picks[k][1] - 1) % Len(companies)) + 1].ticker,
         sentiment |-> FallbackTemplates[picks[k][2]][1],
         magnitude |-> FallbackTemplates[picks[k][2]][2],
         timestamp |-> clock + (k - 1) * FALLBACK_STEP]]

(***************************************************************************)
(* useMarket: the state updaters                                           *)
(***************************************************************************)
\* the append with the newest point dropped at capacity (a faulty variant)
AppendHistoryDropsNewest(history, point) ==
    IF Len(history) >= HISTORY_CAP THEN history ELSE Append(history, point)

\* history.push(point); if (history.length > 100) history.shift()
AppendHistory(history, point) ==
    LET pushed == Append(history, point) IN
    IF Len(pushed) > HISTORY_CAP THEN Tail(pushed) ELSE pushed

\* the append with the tail cut off at capacity (a faulty variant)
AppendNewsKeepsOldest(news, newsEvents) ==
    SubSeq(news \o newsEvents, 1, Min(Len(news \o newsEvents), NEWS_CAP))

\* [...prevState.news, ...newsEvents], then splice(0, length - 50) when over 50
AppendNews(news, newsEvents) ==
    LET updatedNews == news \o newsEvents IN
    IF Len(updatedNews) > NEWS_CAP
    THEN SubSeq(updatedNews, Len(updatedNews) - NEWS_CAP + 1, Len(updatedNews))
    ELSE updatedNews

\* the MarketState set by initialize().  arrivals and newsArrivals are
\* history fields of the model: every point and every event ever appended
\* to the buffers of this state value, in arrival order.
InitialState(companies, clock) ==
    LET ts == { companies[i].ticker : i \in 1..Len(companies) }
        co(t) == CHOOSE c \in { companies[i] : i \in 1..Len(companies) } : c.ticker = t
    IN [companies |-> companies,
        prices |-> [t \in ts |-> co(t).basePrice],
        priceHistory |-> [t \in ts |-> initializePriceHistory(t, co(t).basePrice, clock)],
        news |-> << >>,
        portfolio |-> getInitialPortfolio,
        arrivals |-> [t \in ts |-> initializePriceHistory(t, co(t).basePrice, clock)],
        newsArrivals |-> << >>]

\* the price point a company gets in the tick updater
TickPoint(prevState, company, draw, clock) ==
    [ticker |-> company.ticker,
     price |-> calculateNewPrice(prevState.prices[company.ticker], company,
                                 prevState.news, 1, draw, clock),
     timestamp |-> clock]

\* a tick updater that sets the new prices and pushes no history point
\* (a faulty variant)
TickUpdatePricesOnly(prevState, draw, clock) ==
    LET ts == { prevState.companies[i].ticker : i \in 1..Len(prevState.companies) }
        co(t) == CHOOSE c \in { prevState.companies[i] : i \in 1..Len(prevState.companies) } :
                    c.ticker = t
    IN [prevState EXCEPT
          !.prices = [t \in ts |-> TickPoint(prevState, co(t), draw[t], clock).price]]

\* a tick updater that advances the first company of the roster only
\* (a faulty variant)
TickUpdateFirstOnly(prevState, draw, clock) ==
    LET first == prevState.companies[1]
        pt == TickPoint(prevState, first, draw[first.ticker], clock)
    IN [prevState EXCEPT
          !.prices[first.ticker] = pt.price,
          !.priceHistory[first.ticker] = AppendHistory(@, pt),
          !.arrivals[first.ticker] = Append(@, pt)]

\* the updater passed to setState by the tick interval; draw[t] is the
\* random draw of company t
TickUpdate(prevState, draw, clock) ==
    LET ts == { prevState.companies[i].ticker : i \in 1..Len(prevState.companies) }
        co(t) == CHOOSE c \in { prevState.companies[i] : i \in 1..Len(prevState.companies) } :
                    c.ticker = t
        pt(t) == TickPoint(prevState, co(t), draw[t], clock)
    IN [prevState EXCEPT
          !.prices = [t \in ts |-> pt(t).price],
          !.priceHistory = [t \in ts |-> AppendHistory(prevState.priceHistory[t], pt(t))],
          !.arrivals = [t \in ts |-> Append(prevState.arrivals[t], pt(t))]]

\* the updater passed to setState by generateAndUpdateNews
NewsUpdate(prevState, newsEvents) ==
    [prevState EXCEPT
       !.news = AppendNews(prevState.news, newsEvents),
       !.newsArrivals = prevState.newsArrivals \o newsEvents]

(***************************************************************************)
(* useMarket: the hook's state                                             *)
(***************************************************************************)
VARIABLES
    state,        \* useState<MarketState | null>: the value after every queued update
    rendered,     \* the value of `state` the last render's closures captured
    isLoading,    \* useState(true)
    error,        \* useState<string | null>
    mounted,      \* the component is mounted (not torn down)
    now,          \* Date.now()
    tickTimer,    \* next firing of the interval in tickIntervalRef, or NoTimer
    newsTimer,    \* next firing of the interval in newsIntervalRef, or NoTimer
    inflight,     \* generateNews calls not yet resolved: [count, companies, firedAt]
    initCalls,    \* initialize() calls still awaiting generateCompanies
    draws,        \* ticks so far whose random draw was not the midpoint
    calls,        \* entry-point calls so far
    lastCall,     \* the last entry-point call: [op, ticker, shares, price, cash, error]
                  \*   (price and cash as handed to the ledger)
    ticks,        \* tick firings so far
    lastTickAt,   \* time of the last tick firing (of ready, before the first)
    tickGap,      \* time between the last tick firing and the one before (or ready)
    newsFired,    \* generateAndUpdateNews calls so far
    lastNewsAt,   \* time of the last generateAndUpdateNews call
    newsStarts,   \* times the news effect body armed its interval
    newsCompanies, \* `const companies = state.companies` of the news effect's closure
    readyAt,      \* time of the render that first saw a non-null state
    limits,       \* what a run explores: [horizon, calls, draws], fixed by Init
    resolved,     \* generateNews calls resolved so far
    lastResolve   \* the last resolution: [source, count, events]

vars == << state, rendered, isLoading, error, mounted, now, tickTimer, newsTimer,
           inflight, initCalls, draws, calls, lastCall, ticks, lastTickAt, tickGap,
           newsFired, lastNewsAt, newsStarts, newsCompanies, readyAt, resolved,
           lastResolve, limits >>

hookVars == << state, rendered, isLoading, error, mounted, tickTimer, newsTimer,
               inflight, initCalls >>
tickGhost == << ticks, lastTickAt, tickGap, draws >>
newsGhost == << newsFired, lastNewsAt, newsStarts, newsCompanies >>
callGhost == << calls, lastCall >>
resolveGhost == << resolved, lastResolve >>

\* the last entry-point call: its arguments, the price it read, the cash and
\* the positions of the portfolio it handed to the ledger, and the error thrown
NoCall == [op |-> "none", ticker |-> "", shares |-> 0, price |-> 0, cash |-> 0,
           positions |-> NoPositions, error |-> NoError]
\* the last generateNews resolution: who answered, the count asked for, the
\* events returned, and whether the component was still mounted
NoResolve == [source |-> "none", count |-> 0, events |-> << >>, mounted |-> TRUE]

\* initialize() runs once per run of the mount effect: once in a production
\* build, twice under the React.StrictMode wrapper of a development build
MountEffectRuns == {1, 2}

\* the share quantities the trade panel may pass
ShareInputs == {0, 1, 10, 600}

\* a setState that still applies after the unmount (a faulty variant)
SetStateAfterUnmount(value) == state' = value

\* setState of a component that is no longer mounted changes nothing
SetState(value) == state' = IF mounted THEN value ELSE state

\* the hook as useMarket() leaves it on the first render
Start(lim) ==
    /\ state = NoState
    /\ rendered = NoState
    /\ isLoading = TRUE
    /\ error = NoError
    /\ mounted = TRUE
    /\ now = 0
    /\ tickTimer = NoTimer
    /\ newsTimer = NoTimer
    /\ inflight = << >>
    /\ initCalls \in MountEffectRuns
    /\ draws = 0
    /\ calls = 0
    /\ lastCall = NoCall
    /\ ticks = 0
    /\ lastTickAt = 0
    /\ tickGap = 0
    /\ newsFired = 0
    /\ lastNewsAt = 0
    /\ newsStarts = 0
    /\ newsCompanies = << >>
    /\ readyAt = NoTimer
    /\ resolved = 0
    /\ lastResolve = NoResolve
    /\ limits = lim

Init == Start([horizon |-> MaxSteps * Quantum, calls |-> MaxCalls, draws |-> MaxDraws])

(***************************************************************************)
(* initialize(): generateCompanies resolves, or rejects                    *)
(***************************************************************************)
InitializeDone ==
    /\ initCalls > 0
    /\ initCalls' = initCalls - 1
    /\ SetState(InitialState(Companies, now))
    /\ isLoading' = IF mounted THEN FALSE ELSE isLoading
    /\ UNCHANGED << rendered, error, mounted, now, tickTimer, newsTimer, inflight >>
    /\ UNCHANGED << tickGhost, newsGhost, callGhost, resolveGhost, readyAt, limits >>

InitializeFail ==
    /\ initCalls > 0
    /\ initCalls' = initCalls - 1
    /\ error' = IF mounted THEN "Failed to initialize market" ELSE error
    /\ isLoading' = IF mounted THEN FALSE ELSE isLoading
    /\ UNCHANGED << state, rendered, mounted, now, tickTimer, newsTimer, inflight >>
    /\ UNCHANGED << tickGhost, newsGhost, callGhost, resolveGhost, readyAt, limits >>

(***************************************************************************)
(* A render after a state update: the closures capture the new state and   *)
(* the effects whose dependencies changed run (cleanup, then body).        *)
(***************************************************************************)
\* the tick effect's dependency list is [state]
TickEffectRuns(prev, next) == prev /= next

\* the news effect with the dependency list [state] (a faulty variant)
NewsEffectRunsOnState(prev, next) == prev /= next

\* the news effect's dependency list is [!!state]
NewsEffectRuns(prev, next) == (prev = NoState) /= (next = NoState)

Render ==
    /\ mounted
    /\ rendered /= state
    /\ rendered' = state
    /\ tickTimer' = IF TickEffectRuns(rendered, state)
                    THEN (IF state = NoState THEN NoTimer ELSE now + TICK_INTERVAL)
                    ELSE tickTimer
    /\ IF NewsEffectRuns(rendered, state) /\ state /= NoState
       THEN \* cleanup of the previous run (if any) set the ref to null; the body
            \* requests news at once and arms the interval
            \E count \in 1..MAX_NEWS_COUNT :
              /\ newsCompanies' = state.companies
              /\ inflight' = Append(inflight, [count |-> count, firedAt |-> now,
                                                companies |-> state.companies])
              /\ newsTimer' = now + NEWS_INTERVAL
              /\ newsFired' = newsFired + 1
              /\ lastNewsAt' = now
              /\ newsStarts' = newsStarts + 1
       ELSE UNCHANGED << inflight, newsTimer, newsFired, lastNewsAt, newsStarts,
                         newsCompanies >>
    /\ readyAt' = IF rendered = NoState THEN now ELSE readyAt
    /\ lastTickAt' = IF rendered = NoState THEN now ELSE lastTickAt
    /\ UNCHANGED << state, isLoading, error, mounted, now, initCalls >>
    /\ UNCHANGED << ticks, tickGap, draws, callGhost, resolveGhost, limits >>

(***************************************************************************)
(* The tick interval fires                                                 *)
(***************************************************************************)
MidDraw == [t \in Tickers |-> 0]

Tick ==
    /\ tickTimer = now
    /\ \E draw \in [Tickers -> DriftDraws] :
         /\ draw /= MidDraw => draws < limits.draws
         /\ draws' = IF draw /= MidDraw THEN draws + 1 ELSE draws
         /\ SetState(IF state = NoState THEN state ELSE TickUpdate(state, draw, now))
    /\ tickTimer' = now + TICK_INTERVAL
    /\ ticks' = ticks + 1
    /\ tickGap' = now - lastTickAt
    /\ lastTickAt' = now
    /\ UNCHANGED << rendered, isLoading, error, mounted, now, newsTimer, inflight, initCalls >>
    /\ UNCHANGED << newsGhost, callGhost, resolveGhost, readyAt, limits >>

(***************************************************************************)
(* The news interval fires: generateAndUpdateNews() starts a request       *)
(***************************************************************************)
\* generateAndUpdateNews reading the roster from the current state (a faulty
\* variant)
NewsFireRereadsRoster ==
    /\ newsTimer = now
    /\ \E count \in 1..MAX_NEWS_COUNT :
         inflight' = Append(inflight, [count |-> count, firedAt |-> now,
                                       companies |-> IF state = NoState
                                                     THEN newsCompanies
                                                     ELSE state.companies])
    /\ newsTimer' = now + NEWS_INTERVAL
    /\ newsFired' = newsFired + 1
    /\ lastNewsAt' = now
    /\ UNCHANGED << state, rendered, isLoading, error, mounted, now, tickTimer, initCalls >>
    /\ UNCHANGED << tickGhost, callGhost, resolveGhost, readyAt, newsStarts, newsCompanies,
                  limits >>

NewsFire ==
    /\ newsTimer = now
    /\ \E count \in 1..MAX_NEWS_COUNT :
         inflight' = Append(inflight, [count |-> count, firedAt |-> now,
                                       companies |-> newsCompanies])
    /\ newsTimer' = now + NEWS_INTERVAL
    /\ newsFired' = newsFired + 1
    /\ lastNewsAt' = now
    /\ UNCHANGED << state, rendered, isLoading, error, mounted, now, tickTimer, initCalls >>
    /\ UNCHANGED << tickGhost, callGhost, resolveGhost, readyAt, newsStarts, newsCompanies,
                  limits >>

(***************************************************************************)
(* A generateNews request resolves and generateAndUpdateNews continues     *)
(***************************************************************************)
RemoveAt(s, i) == SubSeq(s, 1, i - 1) \o SubSeq(s, i + 1, Len(s))

\* the continuation of generateAndUpdateNews after the await
ApplyNews(i, source, newsEvents) ==
    /\ SetState(IF Len(newsEvents) > 0 /\ state /= NoState
                THEN NewsUpdate(state, newsEvents)
                ELSE state)
    /\ inflight' = RemoveAt(inflight, i)
    /\ resolved' = resolved + 1
    /\ lastResolve' = [source |-> source, count |-> inflight[i].count,
                       events |-> newsEvents, mounted |-> mounted]
    /\ UNCHANGED << rendered, isLoading, error, mounted, now, tickTimer, newsTimer, initCalls >>
    /\ UNCHANGED << tickGhost, newsGhost, callGhost, readyAt, limits >>

NewsResolve ==
    \E i \in 1..Len(inflight) :
       \/ \E payload \in RawPayloads :
            ApplyNews(i, "api", ApiNews(inflight[i].companies, inflight[i].count, payload, now))
       \/ \E picks \in FallbackPicks :
            ApplyNews(i, "fallback",
                      generateFallbackNews(inflight[i].companies, inflight[i].count, picks, now))

\* a request resolves with an answer that holds a malformed element
NewsResolveMalformed ==
    \E i \in 1..Len(inflight) : \E payload \in MalformedPayloads :
        ApplyNews(i, "api", ApiNews(inflight[i].companies, inflight[i].count, payload, now))

(***************************************************************************)
(* The trade entry points                                                  *)
(***************************************************************************)
\* an entry point that swallows the ledger's error and books the trade
\* itself (a faulty variant)
TradeBooksFailedCall(op, ticker, shares, price, answer) ==
    LET signed == IF op = "buy" THEN 0 - shares * price ELSE shares * price IN
    /\ SetState(IF answer.error = NoError
                THEN [rendered EXCEPT !.portfolio = answer.portfolio]
                ELSE [rendered EXCEPT !.portfolio.cash = @ + signed])
    /\ calls' = calls + 1
    /\ lastCall' = [op |-> op, ticker |-> ticker, shares |-> shares, price |-> price,
                    cash |-> rendered.portfolio.cash,
                    positions |-> rendered.portfolio.positions, error |-> NoError]

\* an entry point that replaces the state whether or not the ledger threw
\* (a faulty variant)
TradeAlwaysSetsState(op, ticker, shares, price, answer) ==
    /\ SetState([rendered EXCEPT !.portfolio = answer.portfolio])
    /\ calls' = calls + 1
    /\ lastCall' = [op |-> op, ticker |-> ticker, shares |-> shares, price |-> price,
                    cash |-> rendered.portfolio.cash,
                    positions |-> rendered.portfolio.positions, error |-> answer.error]

\* what handleBuy / handleSell do with the ledger's answer: rethrow, or
\* setState({...state, portfolio: newPortfolio}) over the captured state
Trade(op, ticker, shares, price, answer) ==
    /\ SetState(IF answer.error = NoError
                THEN [rendered EXCEPT !.portfolio = answer.portfolio]
                ELSE state)
    /\ calls' = calls + 1
    /\ lastCall' = [op |-> op, ticker |-> ticker, shares |-> shares, price |-> price,
                    cash |-> rendered.portfolio.cash,
                    positions |-> rendered.portfolio.positions, error |-> answer.error]

\* an entry point that throws when there is no state (a faulty variant)
TradeBeforeReadyThrows(op, ticker, shares) ==
    /\ state' = state
    /\ calls' = calls + 1
    /\ lastCall' = [op |-> op, ticker |-> ticker, shares |-> shares, price |-> 0,
                    cash |-> 0, positions |-> NoPositions, error |-> "NoPosition"]

\* if (!state) return
TradeBeforeReady(op, ticker, shares) ==
    /\ state' = state
    /\ calls' = calls + 1
    /\ lastCall' = [op |-> op, ticker |-> ticker, shares |-> shares, price |-> 0,
                    cash |-> 0, positions |-> NoPositions, error |-> NoError]

HandleBuy ==
    /\ mounted
    /\ calls < limits.calls
    /\ \E ticker \in Tickers, shares \in ShareInputs :
         IF rendered = NoState
         THEN TradeBeforeReady("buy", ticker, shares)
         ELSE LET price == rendered.prices[ticker] IN
              Trade("buy", ticker, shares, price,
                    buyStock(rendered.portfolio, ticker, shares, price))
    /\ UNCHANGED << rendered, isLoading, error, mounted, now, tickTimer, newsTimer,
                    inflight, initCalls >>
    /\ UNCHANGED << tickGhost, newsGhost, resolveGhost, readyAt, limits >>

HandleSell ==
    /\ mounted
    /\ calls < limits.calls
    /\ \E ticker \in Tickers, shares \in ShareInputs :
         IF rendered = NoState
         THEN TradeBeforeReady("sell", ticker, shares)
         ELSE LET price == rendered.prices[ticker] IN
              Trade("sell", ticker, shares, price,
                    sellStock(rendered.portfolio, ticker, shares, price))
    /\ UNCHANGED << rendered, isLoading, error, mounted, now, tickTimer, newsTimer,
                    inflight, initCalls >>
    /\ UNCHANGED << tickGhost, newsGhost, resolveGhost, readyAt, limits >>

(***************************************************************************)
(* Teardown: the component unmounts and the effects' cleanups run          *)
(***************************************************************************)
\* an unmount whose cleanup leaves the news interval armed (a faulty variant)
TeardownLeavesNewsInterval ==
    /\ mounted
    /\ mounted' = FALSE
    /\ tickTimer' = NoTimer
    /\ UNCHANGED << state, rendered, isLoading, error, now, newsTimer, inflight, initCalls >>
    /\ UNCHANGED << tickGhost, newsGhost, callGhost, resolveGhost, readyAt, limits >>

Teardown ==
    /\ mounted
    /\ mounted' = FALSE
    /\ tickTimer' = NoTimer
    /\ newsTimer' = NoTimer
    /\ UNCHANGED << state, rendered, isLoading, error, now, inflight, initCalls >>
    /\ UNCHANGED << tickGhost, newsGhost, callGhost, resolveGhost, readyAt, limits >>

(***************************************************************************)
(* Time passes: only when nothing is due now.  A due interval fires, a     *)
(* pending render runs, and a request in flight resolves within its        *)
(* latency, before the clock moves on.  After the unmount the clock is     *)
(* followed only while an interval is armed or a call is still pending.    *)
(***************************************************************************)
DueTimes == { t \in {tickTimer, newsTimer} : t /= NoTimer }

NextInstant ==
    LET later == { t \in DueTimes : t > now } \cup { now + Quantum }
    IN CHOOSE t \in later : \A u \in later : t <= u

Advance ==
    /\ mounted => rendered = state
    /\ \A t \in DueTimes : t /= now
    /\ NextInstant <= limits.horizon
    /\ mounted \/ inflight /= << >> \/ initCalls > 0 \/ DueTimes /= {}
    /\ initCalls > 0 => NextInstant <= MaxInitDelay * Quantum
    /\ \A i \in 1..Len(inflight) :
          NextInstant - inflight[i].firedAt <= MaxLatency * Quantum
    /\ now' = NextInstant
    /\ UNCHANGED << hookVars, tickGhost, newsGhost, callGhost, resolveGhost, readyAt, limits >>

Next ==
    \/ InitializeDone
    \/ InitializeFail
    \/ Render
    \/ Tick
    \/ NewsFire
    \/ NewsResolve
    \/ HandleBuy
    \/ HandleSell
    \/ Teardown
    \/ Advance

Spec == Init /\ [][Next]_vars

(***************************************************************************)
(* SpecOpening: the same program from the same start, explored over the    *)
(* first tick only, with more calls and draws.  The news interval cannot   *)
(* fire that early (NEWS_INTERVAL > MaxStepsOpening * Quantum), so         *)
(* NewsFire is no part of its next-state relation.                         *)
(***************************************************************************)
InitOpening ==
    Start([horizon |-> MaxStepsOpening * Quantum, calls |-> MaxCallsOpening,
           draws |-> MaxDrawsOpening])

NextOpening ==
    \/ InitializeDone
    \/ InitializeFail
    \/ Render
    \/ Tick
    \/ NewsResolve
    \/ HandleBuy
    \/ HandleSell
    \/ Teardown
    \/ Advance

SpecOpening == InitOpening /\ [][NextOpening]_vars

(***************************************************************************)
(* SpecMalformed: the same program from the same start, with a service     *)
(* that may also answer with malformed elements, explored up to the first  *)
(* ticks.  No entry point is called: the ledger of the model is defined    *)
(* for numeric prices only.                                                *)
(***************************************************************************)
InitMalformed ==
    Start([horizon |-> MaxStepsMalformed * Quantum, calls |-> 0,
           draws |-> MaxDrawsMalformed])

NextMalformed ==
    \/ InitializeDone
    \/ InitializeFail
    \/ Render
    \/ Tick
    \/ NewsResolve
    \/ NewsResolveMalformed
    \/ Teardown
    \/ Advance

SpecMalformed == InitMalformed /\ [][NextMalformed]_vars

(***************************************************************************)
(* SpecRosters: the same program from the same start, with a service that  *)
(* need not return the same roster to every generateCompanies call: the    *)
(* two initialize() calls of a development build may receive different     *)
(* rosters.  Every random draw is the midpoint and no entry point is       *)
(* called.                                                                 *)
(***************************************************************************)
\* another roster generateCompanies may return
OtherCompanies ==
    << [ticker |-> "ACME", basePrice |-> 50000, volatility |-> 5] >>

Rosters == {Companies, OtherCompanies}

\* initialize(): generateCompanies resolves with one of the rosters
InitializeDoneRoster ==
    /\ initCalls > 0
    /\ initCalls' = initCalls - 1
    /\ \E companies \in Rosters : SetState(InitialState(companies, now))
    /\ isLoading' = IF mounted THEN FALSE ELSE isLoading
    /\ UNCHANGED << rendered, error, mounted, now, tickTimer, newsTimer, inflight >>
    /\ UNCHANGED << tickGhost, newsGhost, callGhost, resolveGhost, readyAt, limits >>

InitRosters ==
    Start([horizon |-> MaxStepsRosters * Quantum, calls |-> 0, draws |-> 0])

NextRosters ==
    \/ InitializeDoneRoster
    \/ InitializeFail
    \/ Render
    \/ Tick
    \/ NewsFire
    \/ NewsResolve
    \/ Teardown
    \/ Advance

SpecRosters == InitRosters /\ [][NextRosters]_vars

(***************************************************************************)
(* SpecAged: the program picked up two ticks before the events of its      *)
(* first news answer leave the 120-second window of the price engine.  In  *)
(* the run so far the market became ready at time 0, the first news        *)
(* request asked for three events and was answered at once, every later    *)
(* request was answered with an empty array, every random draw was the     *)
(* midpoint, and nobody traded: the ticks fired every TICK_INTERVAL.       *)
(***************************************************************************)
AgedTicks == (NEWS_WINDOW_MS \div TICK_INTERVAL) - 2
AgedRequests == ((AgedTicks * TICK_INTERVAL) \div NEWS_INTERVAL) + 1

\* ticks k..n of the run applied to market state s
RECURSIVE Replay(_, _, _)
Replay(s, k, n) ==
    IF k > n THEN s ELSE Replay(TickUpdate(s, MidDraw, k * TICK_INTERVAL), k + 1, n)

\* the MarketState of the run after AgedTicks ticks, the first answer being payload
AgedState(payload) ==
    Replay(NewsUpdate(InitialState(Companies, 0),
                      ApiNews(Companies, MAX_NEWS_COUNT, payload, 0)),
           1, AgedTicks)

\* the hook after AgedTicks ticks, everything rendered
AgedSnapshot(payload) ==
    /\ state = AgedState(payload)
    /\ rendered = state
    /\ isLoading = FALSE
    /\ error = NoError
    /\ mounted = TRUE
    /\ now = AgedTicks * TICK_INTERVAL
    /\ tickTimer = (AgedTicks + 1) * TICK_INTERVAL
    /\ newsTimer = AgedRequests * NEWS_INTERVAL
    /\ inflight = << >>
    /\ initCalls = 0
    /\ draws = 0
    /\ calls = 0
    /\ lastCall = NoCall
    /\ ticks = AgedTicks
    /\ lastTickAt = AgedTicks * TICK_INTERVAL
    /\ tickGap = TICK_INTERVAL
    /\ newsFired = AgedRequests
    /\ lastNewsAt = (AgedRequests - 1) * NEWS_INTERVAL
    /\ newsStarts = 1
    /\ newsCompanies = Companies
    /\ readyAt = 0
    /\ resolved = AgedRequests
    /\ lastResolve = [source |-> "api", count |-> MAX_NEWS_COUNT, events |-> << >>,
                      mounted |-> TRUE]
    /\ limits = [horizon |-> AgedTicks * TICK_INTERVAL + MaxStepsAged * Quantum,
                 calls |-> 0, draws |-> MaxDrawsAged]

InitAged == \E payload \in RawPayloads \ { << >> } : AgedSnapshot(payload)

NextAged ==
    \/ Render
    \/ Tick
    \/ NewsFire
    \/ NewsResolve
    \/ Teardown
    \/ Advance

SpecAged == InitAged /\ [][NextAged]_vars

(***************************************************************************)
(* SpecLong: the program picked up after a long quiet run, with its        *)
(* buffers about to fill.  In the quiet run the market became ready at     *)
(* time 0, every news request asked for three events and was answered at   *)
(* once with QuietPayload (neutral events), every random draw was the      *)
(* midpoint, and nobody traded: the news append at the start of each       *)
(* 30-second period re-arms the tick interval, so a period holds           *)
(* TicksPerPeriod ticks, and every price stays at its basePrice.           *)
(***************************************************************************)
QuietPayload == << Raw("ACME", 0, 30), Raw("ACME", 0, 20), Raw("PNY", 0, 30) >>

TicksPerPeriod == (NEWS_INTERVAL - 1) \div TICK_INTERVAL

\* time of the n-th tick of the quiet run (n >= 1)
QuietTickTime(n) ==
    ((n - 1) \div TicksPerPeriod) * NEWS_INTERVAL
      + (((n - 1) % TicksPerPeriod) + 1) * TICK_INTERVAL

\* the MarketState of the quiet run after p full periods and j ticks of the next
QuietState(p, j) ==
    LET n == p * TicksPerPeriod + j
        points(t) == [i \in 1..(n + 1) |->
                        [ticker |-> t, price |-> CompanyOf(t).basePrice,
                         timestamp |-> IF i = 1 THEN 0 ELSE QuietTickTime(i - 1)]]
        events == [k \in 1..(MAX_NEWS_COUNT * (p + 1)) |->
                     Stamp(QuietPayload[((k - 1) % MAX_NEWS_COUNT) + 1],
                           ((k - 1) \div MAX_NEWS_COUNT) * NEWS_INTERVAL)]
    IN [companies |-> Companies,
        prices |-> [t \in Tickers |-> CompanyOf(t).basePrice],
        priceHistory |-> [t \in Tickers |-> LastN(points(t), HISTORY_CAP)],
        news |-> LastN(events, NEWS_CAP),
        portfolio |-> getInitialPortfolio,
        arrivals |-> [t \in Tickers |-> points(t)],
        newsArrivals |-> events]

\* the hook after p full periods and j ticks of the next, everything rendered
QuietSnapshot(p, j) ==
    LET n == p * TicksPerPeriod + j
        at == IF j = 0 THEN p * NEWS_INTERVAL ELSE QuietTickTime(n)
    IN
    /\ state = QuietState(p, j)
    /\ rendered = state
    /\ isLoading = FALSE
    /\ error = NoError
    /\ mounted = TRUE
    /\ now = at
    /\ tickTimer = at + TICK_INTERVAL
    /\ newsTimer = (p + 1) * NEWS_INTERVAL
    /\ inflight = << >>
    /\ initCalls = 0
    /\ draws = 0
    /\ calls = 0
    /\ lastCall = NoCall
    /\ ticks = n
    /\ lastTickAt = IF n = 0 THEN 0 ELSE QuietTickTime(n)
    /\ tickGap = IF n = 0 THEN 0 ELSE TICK_INTERVAL
    /\ newsFired = p + 1
    /\ lastNewsAt = p * NEWS_INTERVAL
    /\ newsStarts = 1
    /\ newsCompanies = Companies
    /\ readyAt = 0
    /\ resolved = p + 1
    /\ lastResolve = [source |-> "api", count |-> MAX_NEWS_COUNT,
                      events |-> [k \in 1..MAX_NEWS_COUNT |->
                                    Stamp(QuietPayload[k], p * NEWS_INTERVAL)]]
    /\ limits = [horizon |-> at + MaxStepsLong * Quantum, calls |-> MaxCallsLong,
                 draws |-> MaxDrawsLong]

\* the period whose start finds the price histories one tick short of
\* HISTORY_CAP points, and the period at whose end the news window is one
\* request short of overflowing
HistoryFillPeriod == (HISTORY_CAP - 2) \div TicksPerPeriod
NewsFillPeriod == (NEWS_CAP \div MAX_NEWS_COUNT) - 1

InitLong ==
    \/ QuietSnapshot(HistoryFillPeriod, 0)
    \/ QuietSnapshot(NewsFillPeriod, TicksPerPeriod)

NextLong ==
    \/ Render
    \/ Tick
    \/ NewsFire
    \/ NewsResolve
    \/ HandleBuy
    \/ HandleSell
    \/ Teardown
    \/ Advance

SpecLong == InitLong /\ [][NextLong]_vars

(***************************************************************************)
(* Properties                                                              *)
(***************************************************************************)
Ready == state /= NoState

\* C1: in every reachable state each ticker's price history holds at most
\* HISTORY_CAP points and is exactly the last min(n + 1, HISTORY_CAP) of the
\* n + 1 points appended to this state (the initial point and one per tick
\* applied), in arrival order: a tick at capacity evicts the oldest point.
\* As long as no entry point was called, n is the number of ticks fired.
C1_HistoryWindow ==
    Ready =>
      \A t \in Tickers :
        /\ Len(state.priceHistory[t]) <= HISTORY_CAP
        /\ state.priceHistory[t] = LastN(state.arrivals[t], HISTORY_CAP)
        /\ Len(state.priceHistory[t]) = Min(Len(state.arrivals[t]), HISTORY_CAP)
        /\ (calls = 0 /\ mounted) => Len(state.arrivals[t]) = ticks + 1

\* a tick found the history full: the oldest point is gone, the rest moved up
C1_Evicted ==
    /\ Ready
    /\ Len(state.arrivals["ACME"]) > HISTORY_CAP
    /\ Len(state.priceHistory["ACME"]) = HISTORY_CAP
    /\ Head(state.priceHistory["ACME"]) = state.arrivals["ACME"][2]
    /\ Head(state.priceHistory["ACME"]) /= Head(state.arrivals["ACME"])

\* C2: in every reachable state the news window holds at most NEWS_CAP
\* events and is exactly the last NEWS_CAP of the events ever appended to
\* this state, in arrival order: a batch that overflows the window removes
\* events from the head only.
C2_NewsWindow ==
    Ready =>
      /\ Len(state.news) <= NEWS_CAP
      /\ state.news = LastN(state.newsArrivals, NEWS_CAP)
      /\ (calls = 0 /\ mounted /\ inflight = << >>) => resolved = newsFired

\* a batch overflowed the window: the head of the arrivals is gone
C2_Evicted ==
    /\ Ready
    /\ Len(state.newsArrivals) > NEWS_CAP
    /\ Len(state.news) = NEWS_CAP
    /\ Head(state.news) = state.newsArrivals[Len(state.newsArrivals) - NEWS_CAP + 1]
    /\ Head(state.news) /= Head(state.newsArrivals)

\* an entry-point call is a step that counts one
IsCall == calls' = calls + 1

\* the ledger's answer to the call just recorded, for the portfolio p
LedgerAnswer(call, p) ==
    IF call.op = "buy"
    THEN buyStock(p, call.ticker, call.shares, call.price)
    ELSE sellStock(p, call.ticker, call.shares, call.price)

\* a buy call whose cost exceeds the cash it was made with is refused
C3_BuyStep ==
    (IsCall /\ lastCall'.op = "buy" /\ lastCall'.shares * lastCall'.price > lastCall'.cash)
        => (lastCall'.error = "InsufficientFunds" /\ state' = state)

\* C3: portfolio cash is >= 0 in every reachable state, whatever buy and sell
\* calls (successful or failed) and price ticks came before; a buy whose
\* shares x price exceeds the cash of the portfolio the entry point hands to
\* the ledger fails with InsufficientFunds and replaces nothing.
C3_CashNeverNegative ==
    /\ [](Ready => state.portfolio.cash >= 0)
    /\ [](rendered /= NoState => rendered.portfolio.cash >= 0)
    /\ [][C3_BuyStep]_vars

\* a buy went through, a tick fired, and a second buy was refused for funds
C3_Refused ==
    /\ Ready
    /\ calls = 2
    /\ ticks >= 1
    /\ lastCall.op = "buy"
    /\ lastCall.error = "InsufficientFunds"
    /\ lastCall.shares * lastCall.price > lastCall.cash
    /\ state.portfolio.cash < INITIAL_CASH

\* a call reports what the ledger answered, and a failed one changes nothing
C4_CallStep ==
    (IsCall /\ rendered /= NoState) =>
        LET answer == LedgerAnswer(lastCall', rendered.portfolio) IN
        /\ lastCall'.error = answer.error
        /\ answer.error /= NoError =>
             /\ state' = state
             /\ UNCHANGED << rendered, isLoading, error, tickTimer, newsTimer, inflight >>

\* C4: when the ledger fails a buy or sell call, the caller gets the ledger's
\* error unchanged and the whole MarketState (portfolio, prices, histories,
\* news) is the same after the call as before.
C4_FailedCallChangesNothing == [][C4_CallStep]_vars

\* a sell failed in the ledger while an update was waiting for its render
C4_Failed ==
    /\ Ready
    /\ lastCall.op = "sell"
    /\ lastCall.error = "InsufficientShares"
    /\ rendered /= state
    /\ state.portfolio.positions /= NoPositions

\* C5 (as stated): every price in state is strictly greater than the floor.
C5_AboveFloor ==
    Ready => \A t \in Tickers : state.prices[t] > PRICE_FLOOR

\* C5 (amended): calculateNewPrice returns at least the floor, and the floor
\* itself when the computed price is at or below it, so every price in state
\* and every point of every history is >= PRICE_FLOOR, hence positive.
C5_AtLeastFloor ==
    Ready =>
      \A t \in Tickers :
        /\ state.prices[t] >= PRICE_FLOOR
        /\ state.prices[t] > 0
        /\ \A i \in 1..Len(state.priceHistory[t]) :
              state.priceHistory[t][i].price >= PRICE_FLOOR

\* a tick's computed price fell below the floor and the floor was returned
C5_AtFloor ==
    /\ Ready
    /\ ticks >= 1
    /\ state.prices["PNY"] = PRICE_FLOOR
    /\ Len(state.priceHistory["PNY"]) >= 2
    /\ state.priceHistory["PNY"][Len(state.priceHistory["PNY"]) - 1].price > PRICE_FLOOR

\* the market is ready for the hook's effects: a render has seen the state
Running == mounted /\ rendered /= NoState

\* C6 (as stated): from ready until teardown every tick fires TICK_INTERVAL
\* after the tick before it (the first one TICK_INTERVAL after ready), so
\* no more than TICK_INTERVAL ever passes without a tick, whatever news
\* updates and buy/sell calls happen in between.
C6_FixedTickPeriod ==
    /\ ticks > 0 => tickGap = TICK_INTERVAL
    /\ Running => now - lastTickAt <= TICK_INTERVAL

\* C7: the news process fires once at the instant the market becomes ready
\* and then every NEWS_INTERVAL until teardown, whatever ticks and trades
\* happen; the effect arms its interval once, and no firing happens before
\* ready or after teardown.
C7_NewsSchedule ==
    /\ rendered = NoState =>
         /\ newsFired = 0
         /\ newsStarts = 0
         /\ newsTimer = NoTimer
    /\ rendered /= NoState =>
         /\ newsStarts = 1
         /\ newsFired >= 1
         /\ lastNewsAt = readyAt + (newsFired - 1) * NEWS_INTERVAL
         /\ mounted => (newsTimer = lastNewsAt + NEWS_INTERVAL /\ now <= newsTimer)
         /\ ~mounted => newsTimer = NoTimer

\* the interval fired a second request after ticks, a trade and a news append
C7_SecondFiring ==
    /\ Running
    /\ newsFired = 2
    /\ lastNewsAt = readyAt + NEWS_INTERVAL
    /\ ticks >= 2
    /\ calls >= 1
    /\ lastCall.error = NoError /\ lastCall.shares > 0
    /\ Len(state.news) > 0

\* a request resolved after the service call failed, or with no event
C8_ResolveStep ==
    (resolved' = resolved + 1
       /\ (lastResolve'.source = "fallback" \/ lastResolve'.events = << >>))
        => state' = state

\* C8 (as stated): a news cycle whose generation failed, or that yielded no
\* event, leaves the MarketState as it was.
C8_FailedCycleChangesNothing == [][C8_ResolveStep]_vars

\* a tick firing, seen from outside: the state before and the state after
C9_TickStep ==
    (ticks' = ticks + 1 /\ Ready) =>
        /\ \E draw \in [Tickers -> DriftDraws] :
             \A t \in Tickers :
               LET pt == [ticker |-> t,
                          price |-> calculateNewPrice(state.prices[t], CompanyOf(t),
                                                      state.news, 1, draw[t], now),
                          timestamp |-> now]
               IN /\ state'.prices[t] = pt.price
                  /\ state'.priceHistory[t] = AppendHistory(state.priceHistory[t], pt)
        /\ state'.news = state.news
        /\ state'.portfolio = state.portfolio
        /\ state'.companies = state.companies

\* no state in which only some tickers have advanced
C9_Together ==
    Ready =>
      \A t, u \in Tickers :
        /\ Len(state.priceHistory[t]) = Len(state.priceHistory[u])
        /\ state.priceHistory[t][Len(state.priceHistory[t])].timestamp
             = state.priceHistory[u][Len(state.priceHistory[u])].timestamp

\* C9: a tick firing replaces the state once, with every company of the
\* roster advanced: each new price is calculateNewPrice of that company's
\* pre-tick price and the pre-tick news, each history gets exactly one point
\* stamped with the firing's time, and nothing else changes; so all
\* histories have the same length and the same last timestamp in every state.
C9_TickAdvancesAll == []C9_Together /\ [][C9_TickStep]_vars

\* a tick moved both prices off their start and gave both histories its point
C9_BothAdvanced ==
    /\ Ready
    /\ ticks = 1
    /\ \A t \in Tickers :
         /\ Len(state.priceHistory[t]) = 2
         /\ state.priceHistory[t][2].timestamp = TICK_INTERVAL
         /\ state.prices[t] /= CompanyOf(t).basePrice

\* a call that went through used the price the state held for its ticker
C10_CallStep ==
    (IsCall /\ Ready /\ rendered /= NoState /\ lastCall'.error = NoError)
        => lastCall'.price = state.prices[lastCall'.ticker]

\* C10 (as stated): a buy or sell executes at the price the state holds for
\* the ticker at the moment of the call, the one written by the last tick
\* applied, never at the price of an older snapshot.
C10_CallAtCurrentPrice == [][C10_CallStep]_vars

\* every position of portfolio p holds a whole, positive number of shares
PositionsPositive(p) ==
    \A t \in DOMAIN p.positions :
        p.positions[t].shares \in Nat /\ p.positions[t].shares > 0

\* a sell of all the shares held takes the ticker out of positions
C11_SellAllStep ==
    (IsCall /\ rendered /= NoState /\ lastCall'.op = "sell" /\ lastCall'.error = NoError
       /\ rendered.portfolio.positions[lastCall'.ticker].shares = lastCall'.shares)
        => lastCall'.ticker \notin DOMAIN state'.portfolio.positions

\* C11: in every reachable state every ticker in portfolio.positions has a
\* whole share count > 0; a sell that brings a position to 0 shares removes
\* the ticker, and no call leaves a zero or negative count.
C11_PositionsPositive ==
    /\ [](Ready => PositionsPositive(state.portfolio))
    /\ [](rendered /= NoState => PositionsPositive(rendered.portfolio))
    /\ [][C11_SellAllStep]_vars

\* a position was bought and then sold off entirely: the ticker is gone
C11_SoldOut ==
    /\ Ready
    /\ calls = 2
    /\ lastCall.op = "sell"
    /\ lastCall.error = NoError
    /\ lastCall.ticker \in DOMAIN lastCall.positions
    /\ lastCall.positions[lastCall.ticker].shares = lastCall.shares
    /\ state.portfolio.positions = NoPositions

\* the error the call just recorded must be rejected with, given the
\* portfolio p it was made on ("none" when no rejection of C12 applies)
RejectionOf(call, p) ==
    IF call.shares <= 0 THEN "InvalidQuantity"
    ELSE IF call.op = "sell" /\ call.ticker \notin DOMAIN p.positions THEN "NoPosition"
    ELSE IF call.op = "sell" /\ call.shares > p.positions[call.ticker].shares
         THEN "InsufficientShares"
    ELSE NoError

\* a call made after ready that C12 wants rejected is rejected with that
\* error and changes neither cash nor positions
C12_RejectStep ==
    (IsCall /\ rendered /= NoState /\ RejectionOf(lastCall', rendered.portfolio) /= NoError)
        => /\ lastCall'.error = RejectionOf(lastCall', rendered.portfolio)
           /\ state'.portfolio = state.portfolio
           /\ rendered'.portfolio = rendered.portfolio

\* C12: a buy or sell call with shares <= 0 is rejected with InvalidQuantity;
\* a sell (of a quantity > 0) of a ticker with no entry in the positions of
\* the portfolio handed to the ledger is rejected with NoPosition; a sell of
\* more shares than held is rejected with InsufficientShares; in each case
\* cash and positions are unchanged.
C12_Rejections == [][C12_RejectStep]_vars

\* a share was bought and a sell of more than is held was then rejected
C12_TooManySold ==
    /\ Ready
    /\ calls = 2
    /\ lastCall.op = "sell"
    /\ lastCall.error = "InsufficientShares"
    /\ lastCall.ticker \in DOMAIN state.portfolio.positions
    /\ lastCall.shares > state.portfolio.positions[lastCall.ticker].shares

\* a sell of a ticker that is not held was rejected
C12_NothingToSell ==
    /\ Ready
    /\ lastCall.op = "sell"
    /\ lastCall.error = "NoPosition"
    /\ lastCall.ticker \notin DOMAIN state.portfolio.positions

\* a call with no shares was rejected
C12_NoShares ==
    /\ Ready
    /\ lastCall.op \in {"buy", "sell"}
    /\ lastCall.error = "InvalidQuantity"

\* the portfolio the call just recorded was made on
PortfolioOf(call) == [cash |-> call.cash, positions |-> call.positions]

\* the shares of ticker t that portfolio p holds
SharesHeld(p, t) == IF t \in DOMAIN p.positions THEN p.positions[t].shares ELSE 0

\* the call being made is a sell of the quantity, ticker and price of the buy
\* before it, on the portfolio that buy returned
SellsBackTheBuy ==
    /\ IsCall
    /\ rendered /= NoState
    /\ lastCall.op = "buy"
    /\ lastCall.error = NoError
    /\ lastCall'.op = "sell"
    /\ lastCall'.ticker = lastCall.ticker
    /\ lastCall'.shares = lastCall.shares
    /\ lastCall'.price = lastCall.price
    /\ PortfolioOf(lastCall') = LedgerAnswer(lastCall, PortfolioOf(lastCall)).portfolio

C13_RoundTripStep ==
    SellsBackTheBuy
        => /\ lastCall'.error = NoError
           /\ state'.portfolio.cash = lastCall.cash
           /\ SharesHeld(state'.portfolio, lastCall.ticker)
                = SharesHeld(PortfolioOf(lastCall), lastCall.ticker)

AverageCostOf(p, t) == IF t \in DOMAIN p.positions THEN p.positions[t].averageCost ELSE 0

\* (oldShares x oldAvgCost + shares x price) / (oldShares + shares), to the
\* nearest mill
WeightedAverageCost(oldShares, oldAvgCost, shares, price) ==
    RoundDiv(oldShares * oldAvgCost + shares * price, oldShares + shares)

\* a successful buy sets shares and average cost of the position, and
\* deducts the cost from cash
C14_BuyStep ==
    (IsCall /\ rendered /= NoState /\ lastCall'.op = "buy" /\ lastCall'.error = NoError)
        => LET call == lastCall'
               old == PortfolioOf(call)
               oldShares == SharesHeld(old, call.ticker)
           IN /\ state'.portfolio.cash = call.cash - call.shares * call.price
              /\ state'.portfolio.positions[call.ticker] =
                   [shares |-> oldShares + call.shares,
                    averageCost |->
                      WeightedAverageCost(oldShares, AverageCostOf(old, call.ticker),
                                          call.shares, call.price)]
              /\ oldShares = 0 => AverageCostOf(state'.portfolio, call.ticker) = call.price

\* a successful sell of fewer shares than held leaves the average cost alone
C14_PartialSellStep ==
    (IsCall /\ rendered /= NoState /\ lastCall'.op = "sell" /\ lastCall'.error = NoError
       /\ lastCall'.shares < SharesHeld(PortfolioOf(lastCall'), lastCall'.ticker))
        => AverageCostOf(state'.portfolio, lastCall'.ticker)
             = AverageCostOf(PortfolioOf(lastCall'), lastCall'.ticker)

\* C14: a successful buy sets the position's average cost to
\* (oldShares x oldAvgCost + shares x price) / (oldShares + shares), which is
\* the price for a new position (a buy of 10 shares at 100 from cash 100000
\* gives cash 99000 and the position {shares 10, averageCost 100}); a sell of
\* part of a position leaves its average cost unchanged.
C14_AverageCost ==
    /\ [][C14_BuyStep]_vars
    /\ [][C14_PartialSellStep]_vars
    /\ [](buyStock(getInitialPortfolio, "ACME", 10, 100000) =
            Returned([cash |-> 99000000,
                      positions |-> [t \in {"ACME"} |->
                                       [shares |-> 10, averageCost |-> 100000]]]))

\* a position was bought in two lots at different prices: its average cost
\* lies strictly between the two
C14_TwoLots ==
    /\ Ready
    /\ calls = 2
    /\ lastCall.op = "buy"
    /\ lastCall.error = NoError
    /\ lastCall.ticker \in DOMAIN lastCall.positions
    /\ lastCall.price /= lastCall.positions[lastCall.ticker].averageCost
    /\ LET lo == Min(lastCall.price, lastCall.positions[lastCall.ticker].averageCost)
           hi == Max(lastCall.price, lastCall.positions[lastCall.ticker].averageCost)
       IN /\ lo < AverageCostOf(state.portfolio, lastCall.ticker)
          /\ AverageCostOf(state.portfolio, lastCall.ticker) < hi

\* ten shares were bought at 100 from the starting cash
C14_TenAtHundred ==
    /\ Ready
    /\ calls = 1
    /\ lastCall = [op |-> "buy", ticker |-> "ACME", shares |-> 10, price |-> 100000,
                   cash |-> INITIAL_CASH, positions |-> NoPositions, error |-> NoError]
    /\ state.portfolio = [cash |-> 99000000,
                          positions |-> [t \in {"ACME"} |->
                                           [shares |-> 10, averageCost |-> 100000]]]

\* part of a position was sold
C14_PartSold ==
    /\ Ready
    /\ calls = 2
    /\ lastCall.op = "sell"
    /\ lastCall.error = NoError
    /\ SharesHeld(state.portfolio, lastCall.ticker) > 0

\* a successful call made at the price quoted for its ticker leaves the total
\* value, at the quoted prices, of the portfolio it was made on
C15_ValueStep ==
    (IsCall /\ rendered /= NoState /\ lastCall'.error = NoError
       /\ lastCall'.price = rendered.prices[lastCall'.ticker])
        => /\ totalValue(state'.portfolio, rendered.prices)
                = totalValue(PortfolioOf(lastCall'), rendered.prices)
           /\ state'.prices = rendered.prices

\* C15: a successful buy or sell executed at the quoted price leaves the
\* total value (cash + the sum over positions of shares x current price,
\* with the same prices before and after the trade) unchanged.
C15_ValueConserved == [][C15_ValueStep]_vars

\* shares bought before the tick were sold after it at another price: the
\* total value is no longer the starting cash, and the sell left it alone
C15_SoldAtNewPrice ==
    /\ Ready
    /\ calls = 2
    /\ lastCall.op = "sell"
    /\ lastCall.error = NoError
    /\ lastCall.ticker \in DOMAIN lastCall.positions
    /\ lastCall.price /= lastCall.positions[lastCall.ticker].averageCost
    /\ totalValue(state.portfolio, state.prices) /= INITIAL_CASH
    /\ totalValue(state.portfolio, state.prices)
         = totalValue(PortfolioOf(lastCall), state.prices)

\* once the component is unmounted, no tick and no news firing happens
C16_NoFiringStep ==
    ~mounted => (ticks' = ticks /\ newsFired' = newsFired)

\* C16: after teardown no price tick and no news firing happens at any later
\* time: both intervals are cleared and stay cleared.
C16_StoppedAfterTeardown ==
    /\ [](~mounted => (tickTimer = NoTimer /\ newsTimer = NoTimer))
    /\ [][C16_NoFiringStep]_vars
    /\ [][~mounted => ~mounted']_vars

\* the market ran (a tick and the first news request), and was torn down at
\* the instant the news interval was due: the interval did not fire
C16_TornDownWhenDue ==
    /\ ~mounted
    /\ Ready
    /\ ticks >= 1
    /\ newsFired = 1
    /\ now = lastNewsAt + NEWS_INTERVAL

\* a generateNews request resolves
IsResolve == resolved' = resolved + 1

\* a request that resolves after the unmount changes nothing but the list of
\* requests in flight
C17_DiscardStep ==
    (IsResolve /\ ~mounted)
        => /\ state' = state
           /\ rendered' = rendered
           /\ tickTimer' = tickTimer
           /\ newsTimer' = newsTimer

\* C17: a news request in flight at teardown is discarded when it resolves:
\* its events are never appended to the window and it replaces no state.
C17_InFlightDiscarded == [][C17_DiscardStep]_vars

\* a request resolved with events after the unmount, and the window is empty
C17_ResolvedAfterTeardown ==
    /\ ~mounted
    /\ Ready
    /\ resolved >= 1
    /\ ~lastResolve.mounted
    /\ Len(lastResolve.events) > 0
    /\ state.news = << >>
    /\ inflight = << >>

\* s is a market as initialize() builds it: every roster company at its base
\* price with a history of that one point, no news, the starting portfolio
FreshMarket(s) ==
    /\ s.companies = Companies
    /\ DOMAIN s.prices = Tickers
    /\ DOMAIN s.priceHistory = Tickers
    /\ \A t \in Tickers :
         /\ s.prices[t] = CompanyOf(t).basePrice
         /\ Len(s.priceHistory[t]) = 1
         /\ s.priceHistory[t][1].ticker = t
         /\ s.priceHistory[t][1].price = CompanyOf(t).basePrice
         /\ s.priceHistory[t][1].timestamp <= now
    /\ s.news = << >>
    /\ s.portfolio.cash = INITIAL_CASH
    /\ DOMAIN s.portfolio.positions = {}

\* the step in which the state turns from absent to ready, and the render
\* that first shows a ready state
C18_ReadyStep ==
    /\ (state = NoState /\ state' /= NoState) => FreshMarket(state')
    /\ (rendered = NoState /\ rendered' /= NoState) => FreshMarket(rendered')

InitFailed == error /= NoError

\* once an initialize() call has failed with the state absent, the state
\* stays absent, loading has ended and nothing fires
C19_HaltStep ==
    (InitFailed /\ state = NoState)
        => /\ state' = NoState
           /\ ~isLoading'
           /\ ticks' = ticks
           /\ newsFired' = newsFired

\* C19: if the company-roster call fails during initialization, the market
\* never reaches the ready state: the error is surfaced, the state stays
\* absent, loading ends, and no price tick, news firing or portfolio change
\* ever occurs afterwards.
C19_FailedInitHalts == [][C19_HaltStep]_vars

\* when the initialize() call that failed was the only one, or the last one
\* to finish, the market is halted for good
C19_AllCallsFailed ==
    [][(InitFailed /\ state = NoState /\ initCalls = 0)
         => (state' = NoState /\ ticks' = ticks /\ newsFired' = newsFired
             /\ ~isLoading' /\ error' = error)]_vars

\* the roster call failed and nothing followed
C19_Halted ==
    /\ InitFailed
    /\ state = NoState
    /\ initCalls = 0
    /\ ~isLoading
    /\ calls >= 1

\* the tickers of the roster held in market state s
RosterOf(s) == { s.companies[i].ticker : i \in 1..Len(s.companies) }

\* every event of the news window of s is about a company of its roster
NewsOnRoster(s) == \A i \in 1..Len(s.news) : s.news[i].ticker \in RosterOf(s)

\* the events a generateNews resolution hands over are about roster companies
C20_ResolveStep ==
    IsResolve => \A i \in 1..Len(lastResolve'.events) :
                    lastResolve'.events[i].ticker \in Tickers

\* C20: in every reachable state every event in the news window has a ticker
\* of the company roster: events of the news collaborator (or of the fallback
\* generator) with an unknown ticker are discarded before the window is
\* updated.
C20_NewsOnRoster ==
    /\ [](Ready => NewsOnRoster(state))
    /\ [](rendered /= NoState => NewsOnRoster(rendered))
    /\ [][C20_ResolveStep]_vars

\* the service answered with an event for an unknown ticker followed by one
\* for ACME: the window holds the ACME event only
C20_UnknownDropped ==
    /\ Ready
    /\ resolved = 1
    /\ lastResolve.source = "api"
    /\ Len(lastResolve.events) = 1
    /\ lastResolve.events[1].ticker = "ACME"
    /\ lastResolve.events[1].sentiment = 90
    /\ lastResolve.events[1].magnitude = 100
    /\ state.news = lastResolve.events

\* event n of the news window is well formed: a roster ticker, and numbers
\* for sentiment and magnitude
WellFormed(n) == n.ticker \in Tickers /\ n.sentiment /= NaN /\ n.magnitude /= NaN

\* no price of market state s is NaN
PricesAreNumbers(s) == \A t \in DOMAIN s.prices : s.prices[t] /= NaN

\* C21: a malformed element of a news payload (sentiment or magnitude
\* missing or not a number, or a ticker outside the roster) never enters the
\* news window, and no price ever becomes not-a-number because of a news
\* payload.
C21_MalformedNeverEnters ==
    Ready => /\ \A i \in 1..Len(state.news) : WellFormed(state.news[i])
             /\ PricesAreNumbers(state)

\* the second half of C21 alone: no price is ever NaN
C21_PricesStayNumbers == Ready => PricesAreNumbers(state)

\* the part of C21 that holds: an element with a ticker outside the roster
\* never enters the window, whatever the rest of the payload
C21_UnknownTickerNeverEnters ==
    Ready => \A i \in 1..Len(state.news) : state.news[i].ticker \in Tickers

(***************************************************************************)
(* C22                                                                     *)
(***************************************************************************)
\* a generateNews call starts in this step
IsFiring == newsFired' = newsFired + 1

\* the roster of the state the market became ready with is captured by the
\* render that first sees it, and is never captured again
C22_CaptureStep ==
    /\ (rendered = NoState /\ rendered' /= NoState) => newsCompanies' = rendered'.companies
    /\ rendered /= NoState => newsCompanies' = newsCompanies

\* a firing asks for one to MAX_NEWS_COUNT events for the captured roster
C22_FiringStep ==
    IsFiring =>
        /\ Len(inflight') = Len(inflight) + 1
        /\ inflight'[Len(inflight')].count \in 1..MAX_NEWS_COUNT
        /\ inflight'[Len(inflight')].companies = newsCompanies'

\* a resolution returns, and appends, at most the count asked for
C22_AppendStep ==
    IsResolve =>
        /\ Len(lastResolve'.events) <= lastResolve'.count
        /\ (state /= NoState /\ state' /= NoState) =>
              Len(state'.newsArrivals) - Len(state.newsArrivals) <= lastResolve'.count

\* C22: every news firing requests a count in {1, 2, 3} for the company roster
\* captured when the market became ready, never a roster re-read from later
\* state, and a single firing appends at most the requested count of events
C22_FiringsBounded == [][C22_CaptureStep /\ C22_FiringStep /\ C22_AppendStep]_vars

\* the interval fired after the roster in the state had been replaced, and an
\* answer with four events of the captured roster was cut to the two asked for
C22_LaterFiringCut ==
    /\ state /= NoState
    /\ state.companies /= newsCompanies
    /\ newsFired >= 2
    /\ inflight = << >>
    /\ lastResolve.source = "api"
    /\ lastResolve.count = 2
    /\ Len(lastResolve.events) = 2

(***************************************************************************)
(* C23                                                                     *)
(***************************************************************************)
\* the values of the timeDelta argument explored
TimeDeltas == {0, 1, 3}

\* event n is about company c and less than 120 seconds old at clock
Contributes(n, c, clock) == n.ticker = c.ticker /\ clock - n.timestamp < NEWS_WINDOW_MS

\* no event of the window of s contributes to company c at clock
NothingContributes(s, c, clock) ==
    \A i \in 1..Len(s.news) : ~Contributes(s.news[i], c, clock)

\* new is old times a factor within 1 +/- 0.01 * max(1, timeDelta) *
\* (1 + 0.5 * volatility), up to the rounding of a price to mills
DriftOnly(old, new, c, timeDelta) ==
    LET change == IF new >= old THEN new - old ELSE old - new
    IN 2 * 10000 * 20 * change
         <= 2 * old * 100 * Max(1, timeDelta) * (20 + c.volatility) + 10000 * 20

\* the price engine applied to company c of market state s at the current time
C23_Engine(s, c) ==
    \A timeDelta \in TimeDeltas : \A draw \in DriftDraws :
       LET p == s.prices[c.ticker]
           new == calculateNewPrice(p, c, s.news, timeDelta, draw, now)
       IN /\ \A i \in 1..Len(s.news) :
                ~Contributes(s.news[i], c, now) =>
                   new = calculateNewPrice(p, c, RemoveAt(s.news, i), timeDelta, draw, now)
          /\ NothingContributes(s, c, now) =>
                /\ SentimentImpact(c, s.news, now) = 0
                /\ DriftOnly(p, new, c, timeDelta)

\* a tick moves the price of a company nothing contributes to by drift only
C23_TickStep ==
    (ticks' = ticks + 1 /\ state /= NoState /\ state' /= state) =>
        \A i \in 1..Len(state.companies) :
           LET c == state.companies[i] IN
           NothingContributes(state, c, now) =>
              DriftOnly(state.prices[c.ticker], state'.prices[c.ticker], c, 1)

\* C23: only events whose ticker equals the company's ticker and whose
\* timestamp is less than 120 seconds before the tick contribute to that
\* company's price change; with no such event (empty window, other tickers
\* only, or all older than 120 seconds) the sentiment impact is 0 and the
\* price moves by drift only, i.e. by a factor within
\* 1 +/- 0.01 * max(1, timeDelta) * (1 + 0.5 * volatility)
C23_OnlyRecentOwnNews ==
    /\ [](state /= NoState =>
             \A i \in 1..Len(state.companies) : C23_Engine(state, state.companies[i]))
    /\ [][C23_TickStep]_vars

\* the tick that finds the ACME event of the first answer exactly 120 seconds
\* old has fired with the midpoint draw: the event is still in the window
\* and the price of ACME has not moved, after having risen at the tick before
C23_AgedOut ==
    /\ state /= NoState
    /\ lastTickAt = now
    /\ Len(state.news) >= 1
    /\ state.news[1].ticker = "ACME"
    /\ state.news[1].sentiment = 90
    /\ now - state.news[1].timestamp = NEWS_WINDOW_MS
    /\ LET a == state.arrivals["ACME"] IN
          /\ Len(a) >= 3
          /\ a[Len(a)].timestamp = now
          /\ a[Len(a)].price = a[Len(a) - 1].price
          /\ a[Len(a) - 1].price > a[Len(a) - 2].price

(***************************************************************************)
(* C24                                                                     *)
(***************************************************************************)
\* the sentiment impact on company c in market state s is at most 8 %
\* (800 basis points) either way
SentimentWithinEightPercent(s, c) ==
    LET impact == SentimentImpact(c, s.news, now)
    IN -800 <= impact /\ impact <= 800

\* C24: the sentiment contribution to a single tick's price change
\* (volatility * 0.08 * sum of sentiment * magnitude over the contributing
\* events) is at most 8 % in absolute value before the volatility multiplier
\* is applied, including when several events for the same ticker are in the
\* 120-second window
C24_SentimentBounded ==
    state /= NoState =>
        \A i \in 1..Len(state.companies) :
            SentimentWithinEightPercent(state, state.companies[i])

(***************************************************************************)
(* C25                                                                     *)
(***************************************************************************)
\* an entry point is called in this step, after the market became ready
IsTrade == calls' = calls + 1 /\ state /= NoState

\* market states a and b agree on everything the ticks and the news appends set
SameMarket(a, b) ==
    /\ a.companies = b.companies
    /\ a.prices = b.prices
    /\ a.priceHistory = b.priceHistory
    /\ a.news = b.news
    /\ a.arrivals = b.arrivals
    /\ a.newsArrivals = b.newsArrivals

\* a trade leaves the prices, the histories and the news window as the ticks
\* and news appends applied so far have set them
C25_TradeStep == IsTrade => (state' /= NoState /\ SameMarket(state', state))

\* a tick changes the latest state's prices and histories, a news append the
\* latest state's window: neither touches the portfolio
C25_UpdaterStep ==
    (state /= NoState /\ (ticks' = ticks + 1 \/ IsResolve)) =>
        (state' /= NoState /\ state'.portfolio = state.portfolio)

\* C25: every mutation (tick, news append, buy, sell) is applied to the
\* latest state: a trade's replacement of the state never rolls back a tick
\* or a news append that was applied before it
C25_AppliedToLatest == [][C25_TradeStep /\ C25_UpdaterStep]_vars

(***************************************************************************)
(* C26                                                                     *)
(***************************************************************************)
\* a call made once the ready state is rendered leaves in the state what the
\* ledger makes of the portfolio the calls before it left there: each operation is applied to the
\* result of the one before, in call order
C26_TradeStep ==
    (IsTrade /\ rendered /= NoState) =>
        /\ state' /= NoState
        /\ state'.portfolio = LedgerAnswer(lastCall', state.portfolio).portfolio

\* C26: no successful trade is lost, including when two calls are issued
\* back to back before the captured snapshot is refreshed: the portfolio in
\* the state equals the result of applying the ledger operations in call
\* order
C26_NoTradeLost == [][C26_TradeStep]_vars

(***************************************************************************)
(* C27                                                                     *)
(***************************************************************************)
\* market state s is coherent: prices and priceHistory are keyed by the
\* roster's tickers, every history is non-empty and ends with the current
\* price, and all histories have the same length
Coherent(s) ==
    /\ DOMAIN s.prices = RosterOf(s)
    /\ DOMAIN s.priceHistory = RosterOf(s)
    /\ \A t \in RosterOf(s) :
          /\ Len(s.priceHistory[t]) >= 1
          /\ s.priceHistory[t][Len(s.priceHistory[t])].price = s.prices[t]
    /\ \A t, u \in RosterOf(s) : Len(s.priceHistory[t]) = Len(s.priceHistory[u])

\* C27: in every ready state, prices[ticker] equals the price of the last
\* point of priceHistory[ticker], the key sets of prices and priceHistory
\* equal the roster's ticker set, every history is non-empty, and all
\* histories have the same length
C27_Coherent ==
    /\ state /= NoState => Coherent(state)
    /\ rendered /= NoState => Coherent(rendered)

\* two ticks after ready, news having moved the price of ACME away from its
\* base price
C27_AfterTicks ==
    /\ state /= NoState
    /\ ticks >= 2
    /\ Len(state.priceHistory["ACME"]) >= 3
    /\ state.prices["ACME"] /= CompanyOf("ACME").basePrice

(***************************************************************************)
(* C28                                                                     *)
(***************************************************************************)
\* a tick applied to a ready state changes prices and priceHistory only
C28_TickStep ==
    (ticks' = ticks + 1 /\ state /= NoState) =>
        /\ state' /= NoState
        /\ state'.companies = state.companies
        /\ state'.news = state.news
        /\ state'.portfolio = state.portfolio

\* a news update applied to a ready state changes news only
C28_NewsStep ==
    (IsResolve /\ state /= NoState) =>
        /\ state' /= NoState
        /\ state'.companies = state.companies
        /\ state'.prices = state.prices
        /\ state'.priceHistory = state.priceHistory
        /\ state'.portfolio = state.portfolio

\* no step taken from a ready state changes the roster
C28_RosterStep ==
    state /= NoState => (state' /= NoState /\ state'.companies = state.companies)

\* the frame of the tick and of the news update alone
C28_UpdaterFrames == [][C28_TickStep /\ C28_NewsStep]_vars

\* C28: a tick changes only prices and priceHistory; an applied news update
\* changes only news; the roster is never changed by any operation after the
\* market became ready
C28_Frames == [][C28_TickStep /\ C28_NewsStep /\ C28_RosterStep]_vars

(***************************************************************************)
(* C29                                                                     *)
(***************************************************************************)
\* an initialize() call completes in this step
IsInitializeCompletion == initCalls' = initCalls - 1

\* a completion of initialize() that finds the market ready leaves the state
\* as it is
C29_CompletionStep == (IsInitializeCompletion /\ state /= NoState) => state' = state

\* C29: initialization is applied exactly once: after the market became
\* ready no later transition (including a second completion of initialize
\* under a development double mount) resets prices, histories, news or
\* portfolio to their initial values
C29_InitializedOnce == [][C29_CompletionStep]_vars

(***************************************************************************)
(* C30                                                                     *)
(***************************************************************************)
\* a call made while there is no market state returns without an error and
\* changes nothing of the hook
C30_CallStep ==
    (calls' = calls + 1 /\ state = NoState) =>
        /\ state' = NoState
        /\ lastCall'.error = NoError
        /\ UNCHANGED << rendered, isLoading, error, mounted, tickTimer, newsTimer,
                        inflight, initCalls >>

\* C30: a buy or sell issued before the market is ready (state absent:
\* loading or after an initialization failure) has no effect: it returns
\* without error and no state is created or changed
C30_NoEffectBeforeReady == [][C30_CallStep]_vars

\* two calls were made with no state, the last a sell of 600 shares after
\* every initialize() call had failed: there is still no state
C30_CalledWithoutState ==
    /\ state = NoState
    /\ InitFailed
    /\ initCalls = 0
    /\ isLoading = FALSE
    /\ calls = 2
    /\ lastCall.op = "sell"
    /\ lastCall.shares = 600
    /\ lastCall.error = NoError

=============================================================================
